---- MODULE Spec2Model ----
(***************************************************************************)
(* Model of src/server.py: the session store (db.sessions), the per-session *)
(* FAISS index directories on disk, and the four request handlers           *)
(* create_session, upload_pdf (with process_pdf), ask_question and          *)
(* delete_session.  Every handler is cut at its await points on the         *)
(* database: the database operation takes effect in one step, the           *)
(* synchronous remainder of the coroutine runs in the next one, and other   *)
(* requests may run in between.  req is the bag of the requests that are    *)
(* running, last the response that was sent most recently, delOk the        *)
(* sessions for which a delete_session has answered with success, and       *)
(* launched the number of requests received so far.                         *)
(***************************************************************************)
EXTENDS Integers, Sequences, FiniteSets, Bags, TLC

VARIABLES db, disk, created, req, last, delOk, launched

vars == <<db, disk, created, req, last, delOk, launched>>

\* ---- bounds -------------------------------------------------------------
MaxSessions == 1
MaxRequests == 3

SessionIds == 1..MaxSessions
\* an identifier that uuid4 never hands out: the "unknown session" of a client
NoSuchId == 0

\* ---- program constants --------------------------------------------------
chunk_size == 1000
chunk_overlap == 200

\* ---- uploaded files -----------------------------------------------------
NoName == <<>>
Page(has, t) == [text_layer |-> has, text |-> t]

FileA == [filename |-> <<"a", ".", "p", "d", "f">>,
          pages |-> <<Page(TRUE, <<"x", " ">>), Page(TRUE, <<"y">>)>>]
FileB == [filename |-> <<"b", ".", "p", "d", "f">>,
          pages |-> <<Page(TRUE, <<" ", "z">>)>>]
FileScan == [filename |-> <<"s", ".", "p", "d", "f">>,
             pages |-> <<Page(FALSE, <<>>), Page(TRUE, <<" ">>)>>]
FileTxt == [filename |-> <<"a", ".", "t", "x", "t">>,
            pages |-> <<Page(TRUE, <<"x">>)>>]
Files == {FileA, FileB, FileScan, FileTxt}

\* ---- pure helpers -------------------------------------------------------
\* str.endswith
EndsWith(s, suffix) ==
    /\ Len(s) >= Len(suffix)
    /\ SubSeq(s, Len(s) - Len(suffix) + 1, Len(s)) = suffix

PdfSuffix == <<".", "p", "d", "f">>

\* a filename test that accepts every name that is not empty
is_pdf_name_any(filename) == Len(filename) > 0

\* the filename test of upload_pdf
is_pdf_name(filename) == EndsWith(filename, PdfSuffix)

IsSpace(c) == c = " "

RECURSIVE lstrip(_)
lstrip(s) == IF s # <<>> /\ IsSpace(Head(s)) THEN lstrip(Tail(s)) ELSE s

RECURSIVE rstrip(_)
rstrip(s) ==
    IF s # <<>> /\ IsSpace(s[Len(s)]) THEN rstrip(SubSeq(s, 1, Len(s) - 1)) ELSE s

\* str.strip
strip(s) == rstrip(lstrip(s))

\* page.extract_text() or ""
extracted_text(page) == IF page.text_layer THEN page.text ELSE <<>>

\* the page loop of process_pdf: text += extracted_text
RECURSIVE extract_all(_)
extract_all(pages) ==
    IF pages = <<>> THEN <<>>
    ELSE extracted_text(Head(pages)) \o extract_all(Tail(pages))

\* text_splitter.split_text: windows of chunk_size characters that overlap by
\* chunk_overlap, over the stripped text
RECURSIVE windows(_, _)
windows(t, from) ==
    IF from + chunk_size - 1 >= Len(t)
    THEN <<SubSeq(t, from, Len(t))>>
    ELSE <<SubSeq(t, from, from + chunk_size - 1)>>
         \o windows(t, from + chunk_size - chunk_overlap)

split_text(text) == windows(strip(text), 1)

\* ---- the session store --------------------------------------------------
\* db.sessions.find_one({"session_id": sid}): the matching documents
find_one(sid) == {d \in db : d.session_id = sid}

\* the document create_session inserts
new_session(sid) == [session_id |-> sid, pdf_processed |-> FALSE, pdf_name |-> NoName]

\* an update that sets the flag and forgets the filename
update_one_flag_only(coll, sid, name) ==
    IF \E d \in coll : d.session_id = sid
    THEN {IF d.session_id = sid THEN [d EXCEPT !.pdf_processed = TRUE] ELSE d : d \in coll}
    ELSE coll \cup {[session_id |-> sid, pdf_processed |-> TRUE, pdf_name |-> NoName]}

\* update_one(..., {"$set": {pdf_processed: True, pdf_name: name}}, upsert=True)
update_one(coll, sid, name) ==
    IF \E d \in coll : d.session_id = sid
    THEN {IF d.session_id = sid
          THEN [d EXCEPT !.pdf_processed = TRUE, !.pdf_name = name]
          ELSE d : d \in coll}
    ELSE coll \cup {[session_id |-> sid, pdf_processed |-> TRUE, pdf_name |-> name]}

\* delete_one({"session_id": sid})
delete_one(coll, sid) == {d \in coll : d.session_id # sid}

\* ---- the index directories ---------------------------------------------
\* a save that writes nothing
save_local_nothing(dsk, sid, texts) == dsk

\* a save that adds the new chunks to the index that is already there
save_local_merge(dsk, sid, texts) ==
    [s \in DOMAIN dsk \cup {sid} |->
        IF s = sid THEN (IF sid \in DOMAIN dsk THEN dsk[sid] ELSE <<>>) \o texts
        ELSE dsk[s]]

\* FAISS.from_texts(texts).save_local(f"faiss_index_{sid}")
save_local(dsk, sid, texts) ==
    [s \in DOMAIN dsk \cup {sid} |-> IF s = sid THEN texts ELSE dsk[s]]

\* shutil.rmtree(f"faiss_index_{sid}") when it succeeds
rmtree(dsk, sid) == [s \in DOMAIN dsk \ {sid} |-> dsk[s]]

\* ---- exceptions and HTTP responses -------------------------------------
\* a message is the sequence of the parts an f-string puts together
HTTPException(status, detail) == [http |-> TRUE, status |-> status, detail |-> <<detail>>]

\* any other exception (a library, the file system or the database failing)
OtherError(msg) == [http |-> FALSE, status |-> 500, detail |-> <<msg>>]

\* str(e)
str(e) == IF e.http THEN <<ToString(e.status), ": ">> \o e.detail ELSE e.detail

NoAnswer == <<>>
Resp(status, detail) == [status |-> status, detail |-> detail, answer |-> NoAnswer]
NoResp == Resp(0, <<>>)

\* what the framework sends when exception e leaves a handler
Raised(e) ==
    IF e.http THEN Resp(e.status, e.detail) ELSE Resp(500, <<"Internal Server Error">>)

\* the except clause of process_pdf
ProcessingFailed(e) ==
    Resp(500, <<"Error processing PDF: ">> \o str(e))

\* the except clause of ask_question
AnsweringFailed(e) ==
    Resp(500, <<"Error answering question: ">> \o str(e))

Ok(msg) == Resp(200, <<msg>>)
\* an answer that leaves out what the chain retrieved
Answered_without_result(ans) == [status |-> 200, detail |-> <<"answer">>, answer |-> NoAnswer]

Answered(ans) == [status |-> 200, detail |-> <<"answer">>, answer |-> ans]

\* ---- requests -----------------------------------------------------------
\* the locals of a running handler
Request(op, pc, sid, file, session, n) ==
    [op |-> op, pc |-> pc, sid |-> sid, file |-> file, session |-> session,
     deleted_count |-> n]

Running == BagToSet(req)

\* no request for session sid is running
Quiet(sid) == \A q \in Running : q.sid # sid

CanAccept == launched < MaxRequests

Start(q) == req' = req (+) SetToBag({q})

Answer(op, session, resp) == [op |-> op, session |-> session, resp |-> resp]

\* request q is answered with resp and ends
Finish(q, resp) ==
    /\ last' = Answer(q.op, q.session, resp)
    /\ req' = req (-) SetToBag({q})

\* request q moves on to its next await
Goto(q, pc) == req' = (req (-) SetToBag({q})) (+) SetToBag({[q EXCEPT !.pc = pc]})

Targets == created \cup {NoSuchId}

\* ---- the checks of the handlers ---------------------------------------
\* lines 78-80 of process_pdf: the exception raised for a text without content
no_text_check(text) ==
    IF strip(text) = <<>>
    THEN {HTTPException(400, "PDF contains no extractable text")}
    ELSE {}

\* a precheck that answers both cases with the same message
ask_precheck_one_message(session) ==
    IF session = {} \/ ~\E d \in session : d.pdf_processed
    THEN {HTTPException(404, "Session not found")}
    ELSE {}

\* lines 133-139 of ask_question: the exception raised before the try block
ask_precheck(session) ==
    IF session = {}
    THEN {HTTPException(404, "Session not found")}
    ELSE IF ~\E d \in session : d.pdf_processed
         THEN {HTTPException(404, "No PDF processed for this session")}
         ELSE {}

\* lines 143-145 of ask_question: the exception raised inside the try block
index_check(dsk, sid) ==
    IF sid \notin DOMAIN dsk
    THEN {HTTPException(404, "FAISS index not found")}
    ELSE {}

Init ==
    /\ db = {}
    /\ disk = <<>>
    /\ created = {}
    /\ req = EmptyBag
    /\ last = Answer("none", {}, NoResp)
    /\ delOk = {}
    /\ launched = 0

\* ---- create_session -----------------------------------------------------
CreateSession ==
    \E sid \in SessionIds \ created :
        /\ db' = db \cup {new_session(sid)}
        /\ created' = created \cup {sid}
        /\ UNCHANGED <<disk, req, last, delOk, launched>>

\* ---- upload_pdf ---------------------------------------------------------
\* the request arrives: filename test, then find_one
UploadPdf(sid, file) ==
    /\ CanAccept
    /\ launched' = launched + 1
    /\ IF ~is_pdf_name(file.filename)
       THEN /\ last' = Answer("upload", {}, Raised(HTTPException(400, "File must be a PDF")))
            /\ UNCHANGED req
       ELSE /\ Start(Request("upload", "found", sid, file, find_one(sid), 0))
            /\ UNCHANGED last
    /\ UNCHANGED <<db, disk, created, delOk>>

\* the session test of upload_pdf, then process_pdf up to its await
ProcessPdf(q) ==
    /\ UNCHANGED launched
    /\ q.op = "upload" /\ q.pc = "found"
    /\ LET text == extract_all(q.file.pages)
       IN IF q.session = {}
          THEN /\ Finish(q, Raised(HTTPException(404, "Session not found")))
               /\ UNCHANGED disk
          ELSE IF no_text_check(text) # {}
          THEN /\ Finish(q, ProcessingFailed(CHOOSE e \in no_text_check(text) : TRUE))
               /\ UNCHANGED disk
          ELSE \/ /\ disk' = save_local(disk, q.sid, split_text(text))
                  /\ Goto(q, "saved")
                  /\ UNCHANGED last
               \/ /\ Finish(q, ProcessingFailed(OtherError("embedding failed")))
                  /\ UNCHANGED disk
    /\ UNCHANGED <<db, created, delOk>>

\* the update_one of process_pdf and the return of upload_pdf
UpdateSession(q) ==
    /\ UNCHANGED launched
    /\ q.op = "upload" /\ q.pc = "saved"
    /\ \/ /\ db' = update_one(db, q.sid, q.file.filename)
          /\ Finish(q, Ok("PDF uploaded and processed"))
       \/ /\ Finish(q, ProcessingFailed(OtherError("database unavailable")))
          /\ UNCHANGED db
    /\ UNCHANGED <<disk, created, delOk>>

\* ---- ask_question -------------------------------------------------------
AskQuestion(sid) ==
    /\ CanAccept
    /\ launched' = launched + 1
    /\ Start(Request("ask", "found", sid, FileTxt, find_one(sid), 0))
    /\ UNCHANGED <<db, disk, created, last, delOk>>

AnswerQuestion(q) ==
    /\ UNCHANGED launched
    /\ q.op = "ask" /\ q.pc = "found"
    /\ IF ask_precheck(q.session) # {}
       THEN Finish(q, Raised(CHOOSE e \in ask_precheck(q.session) : TRUE))
       ELSE IF index_check(disk, q.sid) # {}
       THEN Finish(q, AnsweringFailed(CHOOSE e \in index_check(disk, q.sid) : TRUE))
       ELSE \/ Finish(q, Answered(disk[q.sid]))
            \/ Finish(q, AnsweringFailed(OtherError("model unavailable")))
    /\ UNCHANGED <<db, disk, created, delOk>>

\* ---- delete_session -----------------------------------------------------
DeleteSession(sid) ==
    /\ CanAccept
    /\ launched' = launched + 1
    /\ Start(Request("delete", "deleted", sid, FileTxt, {},
                     IF find_one(sid) # {} THEN 1 ELSE 0))
    /\ db' = delete_one(db, sid)
    /\ UNCHANGED <<disk, created, last, delOk>>

\* the deleted_count test and the rmtree of delete_session
RemoveIndex(q) ==
    /\ UNCHANGED launched
    /\ q.op = "delete" /\ q.pc = "deleted"
    /\ IF q.deleted_count = 0
       THEN /\ Finish(q, Raised(HTTPException(404, "Session not found")))
            /\ UNCHANGED <<disk, delOk>>
       ELSE IF q.sid \notin DOMAIN disk
       THEN \* FileNotFoundError: caught
            /\ Finish(q, Ok("Session deleted"))
            /\ delOk' = delOk \cup {q.sid}
            /\ UNCHANGED disk
       ELSE \/ /\ disk' = rmtree(disk, q.sid)
               /\ Finish(q, Ok("Session deleted"))
               /\ delOk' = delOk \cup {q.sid}
            \/ \* any other OSError: not caught
               /\ Finish(q, Raised(OtherError("PermissionError")))
               /\ UNCHANGED <<disk, delOk>>
    /\ UNCHANGED <<db, created>>

Next ==
    \/ CreateSession
    \/ \E sid \in Targets, file \in Files : UploadPdf(sid, file)
    \/ \E q \in Running : ProcessPdf(q)
    \/ \E q \in Running : UpdateSession(q)
    \/ \E sid \in Targets : AskQuestion(sid)
    \/ \E q \in Running : AnswerQuestion(q)
    \/ \E sid \in Targets : DeleteSession(sid)
    \/ \E q \in Running : RemoveIndex(q)

Spec == Init /\ [][Next]_vars

\* the same handlers when the requests of one session arrive one at a time
NextSeq ==
    \/ CreateSession
    \/ \E sid \in Targets, file \in Files : Quiet(sid) /\ UploadPdf(sid, file)
    \/ \E q \in Running : ProcessPdf(q)
    \/ \E q \in Running : UpdateSession(q)
    \/ \E sid \in Targets : Quiet(sid) /\ AskQuestion(sid)
    \/ \E q \in Running : AnswerQuestion(q)
    \/ \E sid \in Targets : Quiet(sid) /\ DeleteSession(sid)
    \/ \E q \in Running : RemoveIndex(q)

SpecSeq == Init /\ [][NextSeq]_vars

\* the same handlers when no upload_pdf and delete_session of one session run
\* at the same time; ask_question is not restricted
NextNoRace ==
    \/ CreateSession
    \/ \E sid \in Targets, file \in Files :
          /\ \A q \in Running : q.sid = sid => q.op # "delete"
          /\ UploadPdf(sid, file)
    \/ \E q \in Running : ProcessPdf(q)
    \/ \E q \in Running : UpdateSession(q)
    \/ \E sid \in Targets : AskQuestion(sid)
    \/ \E q \in Running : AnswerQuestion(q)
    \/ \E sid \in Targets :
          /\ \A q \in Running : q.sid = sid => q.op # "upload"
          /\ DeleteSession(sid)
    \/ \E q \in Running : RemoveIndex(q)

SpecNoRace == Init /\ [][NextNoRace]_vars

TypeOK ==
    /\ created \subseteq SessionIds
    /\ delOk \subseteq created
    /\ DOMAIN disk \subseteq SessionIds
    /\ \A d \in db : d.session_id \in SessionIds
    /\ BagCardinality(req) <= launched
    /\ launched <= MaxRequests

\* ---- properties ---------------------------------------------------------
\* the step answers the running request q
Completes(q) == q \in Running /\ req' = req (-) SetToBag({q})

Processed(session) == \E d \in session : d.pdf_processed

FileText(q) == extract_all(q.file.pages)

ClientError(resp) == resp.status \in 400..499

\* C1: an upload_pdf whose PDF has no text but whitespace is answered with a
\* client error (4xx), and the step changes neither the session store nor the
\* index directories.
C1_EmptyTextClientError ==
    [][\A q \in Running :
         (Completes(q) /\ q.op = "upload" /\ strip(FileText(q)) = <<>>)
         => /\ ClientError(last'.resp)
            /\ UNCHANGED <<db, disk>>]_vars

\* C2: for every session with a record, the index directory exists if and
\* only if pdf_processed is true; stated at the states where no request for
\* the session is running, which every reading of the claim includes.
C2_IndexIffProcessed ==
    \A d \in db :
        Quiet(d.session_id) => ((d.session_id \in DOMAIN disk) <=> d.pdf_processed)

\* C3: DELETED is terminal: a session that was created and has no record (its
\* record was removed by delete_session) has no record in the next state
\* either, whatever request takes the step.
C3_DeletedIsTerminal ==
    [][\A sid \in created : find_one(sid) = {} => (find_one(sid))' = {}]_vars

\* C4: an ask_question that saw pdf_processed = true and finds no index
\* directory is answered with 404.
C4_IndexMissingIs404 ==
    [][\A q \in Running :
         (Completes(q) /\ q.op = "ask" /\ Processed(q.session)
            /\ q.sid \notin DOMAIN disk)
         => last'.resp.status = 404]_vars

\* C5: ask_question answers "Session not found" when there is no record and
\* "No PDF processed for this session" when the record is not processed: two
\* different answers, and neither step changes the store or the indexes.
C5_AskErrorsDistinct ==
    [][\A q \in Running :
         (Completes(q) /\ q.op = "ask" /\ ~Processed(q.session))
         => /\ q.session = {}
                => last'.resp = Resp(404, <<"Session not found">>)
            /\ q.session # {}
                => last'.resp = Resp(404, <<"No PDF processed for this session">>)
            /\ UNCHANGED <<db, disk, created>>]_vars

C5_Witness ==
    /\ last.op = "ask"
    /\ last.session # {}
    /\ last.resp = Resp(404, <<"No PDF processed for this session">>)
    /\ \E q \in Running : q.op = "ask" /\ q.session = {}

\* C6: a delete_session that removed the record is answered with success
\* whatever happens to the index directory, and the step leaves the session
\* store as the delete_one left it.
C6_DeleteNeverEscalates ==
    [][\A q \in Running :
         (Completes(q) /\ q.op = "delete" /\ q.deleted_count = 1)
         => /\ last'.resp.status = 200
            /\ UNCHANGED db]_vars

\* C7: once a delete_session has succeeded for a session, every later
\* delete_session for it is answered with 404: at most one delete succeeds.
C7_SecondDeleteNotFound ==
    [][\A q \in Running :
         (Completes(q) /\ q.op = "delete" /\ q.sid \in delOk)
         => last'.resp.status = 404]_vars

C9_UploadThenAsk ==
    [][\A q \in Running :
         /\ (Completes(q) /\ q.op = "upload" /\ last'.resp.status = 200)
            => /\ (find_one(q.sid))' =
                     {[session_id |-> q.sid, pdf_processed |-> TRUE,
                       pdf_name |-> q.file.filename]}
               /\ q.sid \in DOMAIN disk'
               /\ ask_precheck((find_one(q.sid))') = {}
         /\ (Completes(q) /\ q.op = "ask" /\ Processed(q.session)
               /\ Processed(find_one(q.sid)))
            => /\ q.sid \in DOMAIN disk
               /\ \/ last'.resp = Answered(disk[q.sid])
                  \/ last'.resp = AnsweringFailed(OtherError("model unavailable"))]_vars

C9_Witness ==
    /\ last.op = "ask"
    /\ last.resp.status = 200
    /\ \E d \in db : d.pdf_processed /\ last.resp.answer = disk[d.session_id]

\* C10: upload_pdf answers 400 to a filename that does not end in ".pdf" and
\* 404 to a session without a record; no upload with such a filename gets
\* past the test, and neither rejection changes the store or the indexes.
C10_UploadRejections ==
    [][/\ \A q \in BagToSet(req') :
            q.op = "upload" => EndsWith(q.file.filename, PdfSuffix)
       /\ (last'.op = "upload" /\ last' # last /\ req' = req)
            => /\ last'.resp = Resp(400, <<"File must be a PDF">>)
               /\ UNCHANGED <<db, disk, created>>
       /\ \A q \in Running :
            (Completes(q) /\ q.op = "upload" /\ q.session = {})
            => /\ last'.resp = Resp(404, <<"Session not found">>)
               /\ UNCHANGED <<db, disk, created>>]_vars

C10_Witness ==
    /\ last.op = "upload"
    /\ last.session = {}
    /\ last.resp = Resp(404, <<"Session not found">>)
    /\ db # {}

\* C11: nothing keeps ask_question apart from an upload_pdf of the same
\* session: while an upload is running a new ask_question is accepted like
\* any other request, and an ask_question that succeeds answers from the
\* index that is on disk at that moment, whatever pdf_name the session record
\* holds and whether or not the upload that wrote the index has updated the
\* record.
C11_AskReadsIndexOnDisk ==
    [][/\ \A u \in Running :
            (u.op = "upload" /\ CanAccept) => ENABLED AskQuestion(u.sid)
       /\ \A q \in Running :
            (Completes(q) /\ q.op = "ask" /\ last'.resp.status = 200)
            => /\ q.sid \in DOMAIN disk
               /\ last'.resp.answer = disk[q.sid]
               /\ UNCHANGED <<db, disk>>]_vars

\* an ask_question on a processed session was answered from the index of a
\* re-ingestion that is still running: the record names another PDF
C11_Witness ==
    /\ last.op = "ask"
    /\ last.resp.status = 200
    /\ \E u \in Running, seen \in last.session, d \in db :
         /\ u.op = "upload" /\ u.pc = "saved" /\ u.sid = seen.session_id
         /\ Processed(u.session)
         /\ d.session_id = u.sid /\ d.pdf_processed
         /\ d.pdf_name # u.file.filename
         /\ last.resp.answer = split_text(FileText(u))
         /\ \E f \in Files :
              /\ f.filename = d.pdf_name
              /\ split_text(extract_all(f.pages)) # last.resp.answer

IndexMissing == AnsweringFailed(HTTPException(404, "FAISS index not found"))

\* C12 as claimed: in the executions where no upload_pdf and delete_session
\* of one session run at the same time (those where the handlers of a session
\* run one at a time are among them), every processed record has its index
\* directory and no ask_question reaches "FAISS index not found".
C12_BranchOnlyByUploadDeleteRace ==
    [][/\ \A d \in db : d.pdf_processed => d.session_id \in DOMAIN disk
       /\ \A q \in Running :
            (Completes(q) /\ q.op = "ask") => last'.resp # IndexMissing]_vars

\* C12 as amended: in those executions every processed record has its index
\* directory; an ask_question whose record is still the one its find_one
\* returned (as it is when the handlers of the session run one at a time)
\* never reaches "FAISS index not found"; and one that reaches it saw a
\* processed record that a delete_session has removed since.
C12_BranchOnlyByDeleteRace ==
    [][/\ \A d \in db : d.pdf_processed => d.session_id \in DOMAIN disk
       /\ \A q \in Running :
            (Completes(q) /\ q.op = "ask")
            => /\ find_one(q.sid) = q.session => last'.resp # IndexMissing
               /\ last'.resp = IndexMissing
                    => /\ Processed(q.session)
                       /\ find_one(q.sid) = {}
                       /\ q.sid \notin DOMAIN disk]_vars

\* an ask_question reached "FAISS index not found" with no upload_pdf in the
\* race: the record it saw was deleted while it was running
C12_Witness ==
    /\ last.op = "ask"
    /\ last.resp = IndexMissing
    /\ \E seen \in last.session :
         /\ seen.pdf_processed
         /\ find_one(seen.session_id) = {}
         /\ seen.session_id \notin DOMAIN disk
====
